---- MODULE Spec2Model ----
(***************************************************************************)
(* Model of the nostreaming gateway: the provider directory               *)
(* (ProviderManagerImpl), the router (ProviderRouterImpl), the retrying   *)
(* orchestrator (autoRetryCompletion) and the fake-stream emitter         *)
(* (createFakeStream).                                                    *)
(*                                                                        *)
(* JavaScript runs handlers to completion: everything between two awaits  *)
(* on real I/O is one action.  Continuations of resolved promises         *)
(* (microtasks) run before any timer callback or new request, so a chain  *)
(* of awaits on already-settled results belongs to the same action.       *)
(* Strings that are taken apart by the code (provider names, model ids,   *)
(* aliases) are sequences of one-character strings.                       *)
(***************************************************************************)
EXTENDS Integers, Sequences, FiniteSets, TLC

VARIABLES
    providers,            \* config.providers, in declaration order
    maxRetries,           \* config.advanced.maxRetries
    boot,                 \* index.ts: "init" | "serving" | "crashed" | "exited"
    bootIdx,              \* initializeProviders: next entry of the for loop
    startup,              \* initializeProviders: the create() calls made, in order,
                          \* and how the call settled
    notFound,             \* the last refreshModels or destroyProvider call that
                          \* found no client, and what it returned
    clients,              \* ProviderManagerImpl.clients (keys)
    cachedModels,         \* OpenAIProviderClient.cachedModels, by provider name
    modelAliasesMapping,  \* ProviderManagerImpl.modelAliasesMapping
    refreshing,           \* refreshModels calls suspended at their upstream fetch
    refreshCall,          \* refreshModels by provider name: the aliases before
                          \* a call that runs alone, and the call settled last
    pc,                   \* the request: "idle" | "upstream" | "done"
    request,              \* the ChatCompletionsRequest being handled
    orch,                 \* autoRetryCompletion: loop counter, calls, attempt log, outcome
    forwarded,            \* requests handed to client.completion, in order
    handler,              \* what handleCompletion gave the route (non-streaming path)
    isCancelled,          \* createFakeStream: isCancelled
    isCompleted,          \* createFakeStream: isCompleted
    fakeStreamTimer,      \* createFakeStream: fakeStreamTimer is set (TRUE) or null (FALSE)
    chan,                 \* the ReadableStream controller: "none" | "open" | "closed"
    frames,               \* frames enqueued on the controller, in order
    enqueueCalls,         \* calls of controller.enqueue()
    closeCalls,           \* calls of controller.close()
    ticks                 \* timer callbacks that found the session live

dirVars == <<providers, boot, bootIdx, startup, notFound, clients, cachedModels,
             modelAliasesMapping, refreshing, refreshCall>>
reqVars == <<pc, request, orch, forwarded, handler>>
strVars == <<isCancelled, isCompleted, fakeStreamTimer, chan, frames, enqueueCalls,
             closeCalls, ticks>>
vars == <<providers, maxRetries, boot, bootIdx, startup, notFound, clients, cachedModels,
          modelAliasesMapping, refreshing, refreshCall, pc, request, orch, forwarded,
          handler, isCancelled, isCompleted, fakeStreamTimer, chan, frames,
          enqueueCalls, closeCalls, ticks>>

(***************************************************************************)
(* Bounds                                                                  *)
(***************************************************************************)
MaxRetriesBound == 3
MaxTicks == 4
MaxPending == 2

(***************************************************************************)
(* Values                                                                  *)
(***************************************************************************)
Null == [kind |-> "null"]

\* new Error(msg): an Error object has a message and, unless one is given, no cause.
Err(msg) == [kind |-> "error", msg |-> msg, cause |-> "none"]

IsError(v) == v.kind = "error"
IsResponse(v) == v.kind = "response"

\* JavaScript truthiness of the values that occur (objects and arrays are truthy).
Truthy(v) == v.kind # "null"

\* Result(x): the implementation signature is (data?, err?), and every caller
\* passes one argument, so the argument, an Error included, becomes data and
\* err is always null.
Result(x) == [data |-> x, err |-> Null]

\* const { <anything>, err } = result: the Proxy answers every string key
\* other than err (and the four methods) with target.data.
Data(r) == r.data

(***************************************************************************)
(* Strings the code takes apart                                            *)
(***************************************************************************)
StartsWith(s, prefix) ==
    /\ Len(prefix) <= Len(s)
    /\ SubSeq(s, 1, Len(prefix)) = prefix

Slice(s, from) == SubSeq(s, from + 1, Len(s))

\* `${providerName}/${model.id}`
AliasOf(providerName, id) == providerName \o <<"/">> \o id

(***************************************************************************)
(* Upstream model lists and the provider client (OpenAIProviderClient)     *)
(***************************************************************************)
List(items) == [kind |-> "list", items |-> items]
IsList(v) == v.kind = "list"

\* Some configured provider has a "/" in its name.
HasSlashName ==
    \E i \in 1..Len(providers) :
       \E k \in 1..Len(providers[i].name) : providers[i].name[k] = "/"

\* What GET /models can come to: a validated list, or a failure.  Where a
\* provider name holds a "/", the lists are those with a model id that holds
\* one too.
UpstreamLists ==
    IF HasSlashName
    THEN {List(<<<<"g">>>>), List(<<<<"b", "/", "g">>>>)}
    ELSE {List(<<>>), List(<<<<"g">>>>), List(<<<<"g">>, <<"h">>>>)}
FetchFailure == Err("OpenAI API error")

\* fetchModels(): Result(modelsList) or Result(new Error(...)).
FetchModels(upstream) == Result(upstream)
FetchOutcomes == UpstreamLists \cup {FetchFailure}

\* create(): validates by fetching the models and caches them.
ClientCreate(upstream) ==
    LET r == FetchModels(upstream)
        models == Data(r)
    IN  IF r.err # Null \/ ~Truthy(models)
        THEN [cached |-> Null,
              result |-> Result(IF r.err # Null THEN r.err
                                ELSE Err("Failed to fetch models"))]
        ELSE [cached |-> models, result |-> Result(Null)]

\* models(): the cache when there is one.  create() has always run before,
\* and every value it caches is truthy, so the refetch branch is not taken.
ClientModels(cached) == Result(cached)

\* refreshModels(): refetches, caches on success, returns the fetch's result.
ClientRefreshModels(cached, upstream) ==
    LET r == FetchModels(upstream)
        models == Data(r)
    IN  [cached |-> IF r.err = Null /\ Truthy(models) THEN models ELSE cached,
         result |-> IF r.err # Null THEN Result(r.err) ELSE Result(models)]

(***************************************************************************)
(* FilterUtil and the directory's private helpers                          *)
(***************************************************************************)
\* Mutant of whitelist: the models that pass come back in reverse order.
whitelist_Reverses(models, filterModelIds) ==
    LET kept == SelectSeq(models, LAMBDA id : id \in filterModelIds)
    IN  [k \in 1..Len(kept) |-> kept[Len(kept) + 1 - k]]

whitelist(models, filterModelIds) ==
    SelectSeq(models, LAMBDA id : id \in filterModelIds)

\* Mutant of blacklist: nothing is taken out.
blacklist_KeepsAll(models, filterModelIds) == models

blacklist(models, filterModelIds) ==
    SelectSeq(models, LAMBDA id : id \notin filterModelIds)

FilterApply(models, filterModelIds, mode) ==
    IF mode = "whitelist" THEN whitelist(models, filterModelIds)
    ELSE blacklist(models, filterModelIds)

\* getProviderConfig(config, providerName)
ProviderConfigOf(cfg, providerName) ==
    LET idx == {i \in 1..Len(cfg) : cfg[i].name = providerName}
    IN  IF idx = {} THEN Null ELSE cfg[CHOOSE i \in idx : TRUE]

\* Mutant of applyFilter: the list is given back unfiltered.
applyFilter_ReturnsAll(cfg, providerName, models) == models

\* applyFilter: no filter configured gives the list back; models.filter on a
\* value that is no array throws, and the catch gives the value back.
applyFilter(cfg, providerName, models) ==
    LET pcfg == ProviderConfigOf(cfg, providerName)
    IN  IF pcfg = Null \/ pcfg.filter = Null THEN models
        ELSE IF ~IsList(models) THEN models
        ELSE List(FilterApply(models.items, pcfg.filter.models, pcfg.filter.mode))

\* registerModels: for (const model of models) throws a TypeError on a value
\* that is not iterable; otherwise every alias is set to the provider's name.
CanIterate(models) == IsList(models)

\* Mutant of registerModels: the key is the model id without the prefix.
registerModels_BareIds(mapping, providerName, models) ==
    LET added == {models.items[i] : i \in 1..Len(models.items)}
    IN  [a \in (DOMAIN mapping) \cup added |->
            IF a \in added THEN providerName ELSE mapping[a]]

registerModels(mapping, providerName, models) ==
    LET added == {AliasOf(providerName, models.items[i]) : i \in 1..Len(models.items)}
    IN  [a \in (DOMAIN mapping) \cup added |->
            IF a \in added THEN providerName ELSE mapping[a]]

removeModels(mapping, providerName) ==
    [a \in {b \in DOMAIN mapping : mapping[b] # providerName} |-> mapping[a]]

EmptyMapping == [a \in {} |-> <<>>]

(***************************************************************************)
(* Configuration                                                           *)
(***************************************************************************)
NoFilter == Null
Filter(mode, models) == [kind |-> "filter", mode |-> mode, models |-> models]
ProviderEntry(name, enabled, filter) ==
    [name |-> name, enabled |-> enabled, filter |-> filter]

\* The configurations the runs start from: one enabled provider "a", without
\* a filter, with a whitelist or with a blacklist, optionally followed by a
\* disabled one.
Configs ==
    {<<ProviderEntry(<<"a">>, TRUE, NoFilter)>>,
     <<ProviderEntry(<<"a">>, TRUE, Filter("whitelist", {<<"g">>})),
       ProviderEntry(<<"b">>, FALSE, NoFilter)>>,
     <<ProviderEntry(<<"a">>, TRUE, Filter("blacklist", {<<"g">>}))>>}

\* The configurations the startup runs start from: providers a, b and c
\* declared in this order, each enabled or not, b with a whitelist.
BootConfigs ==
    {<<ProviderEntry(<<"a">>, ea, NoFilter),
       ProviderEntry(<<"b">>, eb, Filter("whitelist", {<<"g">>})),
       ProviderEntry(<<"c">>, ec, NoFilter)>> : ea \in BOOLEAN, eb \in BOOLEAN,
                                                 ec \in BOOLEAN}

\* The configurations the runs of the directory start from: provider a with
\* each kind of filter, once followed by a disabled provider.
DirConfigs ==
    {<<ProviderEntry(<<"a">>, TRUE, NoFilter)>>,
     <<ProviderEntry(<<"a">>, TRUE, Filter("whitelist", {<<"g">>})),
       ProviderEntry(<<"b">>, FALSE, NoFilter)>>,
     <<ProviderEntry(<<"a">>, TRUE, Filter("blacklist", {<<"g">>}))>>,
     <<ProviderEntry(<<"a">>, TRUE, Filter("whitelist", {<<"h">>, <<"g">>}))>>,
     <<ProviderEntry(<<"a">>, TRUE, Filter("blacklist", {}))>>}

\* Two enabled providers, the name of the second being the first's name,
\* "/" and more.
KeyConfigs ==
    {<<ProviderEntry(<<"a">>, TRUE, NoFilter),
       ProviderEntry(<<"a", "/", "b">>, TRUE, NoFilter)>>}

Names(cfg) == {cfg[i].name : i \in 1..Len(cfg)}

(***************************************************************************)
(* Startup: index.ts and ProviderManager.initializeProviders               *)
(***************************************************************************)
\* Iterating a value that is no array: registerModels raises.
TypeErrorIterable == Err("TypeError: models is not iterable")

\* index.ts after the await: if (err) process.exit(1), else the server listens.
BootAfter(result) == IF result.err # Null THEN "exited" ELSE "serving"

\* Mutant of BootAfterRaise: the server listens all the same.
BootAfterRaise_Serves(error) == "serving"

\* The top-level await on initializeProviders rejects: the process ends with
\* the unhandled error and the lines that start the server are not reached.
BootAfterRaise(error) == "crashed"

\* The loop is over when the last entry is done: return Result(undefined).
BootNext(idx) ==
    IF idx > Len(providers) THEN BootAfter(Result(Null)) ELSE "init"

\* How a call settles: it returned a result, or it raised.
Returned(result) == [kind |-> "returned", error |-> Null, result |-> result]
Thrown(error) == [kind |-> "thrown", error |-> error, result |-> Null]

NoStartup == [created |-> <<>>, settled |-> Null]

\* `Failed to initialize provider "${name}": ${err.message}`
InitializeFailed(name, err) ==
    [kind |-> "error", msg |-> "Failed to initialize provider", provider |-> name,
     cause |-> err.msg]

StartupNext(s, idx) ==
    IF idx > Len(providers) THEN [s EXCEPT !.settled = Returned(Result(Null))] ELSE s

\* Mutant of IsEnabled: every provider is taken as enabled.
IsEnabled_Always(cfg) == TRUE

\* if (!providerConfig.enabled) continue
IsEnabled(cfg) == cfg.enabled

\* One iteration of the for loop over the configured providers.  The await on
\* client.create() is the only suspension, and nothing else runs during
\* startup (the server does not listen yet).
InitializeProvider ==
    /\ boot = "init"
    /\ bootIdx <= Len(providers)
    /\ LET cfg == providers[bootIdx]
           name == cfg.name
       IN  \/ /\ ~IsEnabled(cfg)
              /\ bootIdx' = bootIdx + 1
              /\ boot' = BootNext(bootIdx + 1)
              /\ startup' = StartupNext(startup, bootIdx + 1)
              /\ UNCHANGED <<clients, cachedModels, modelAliasesMapping>>
           \/ /\ IsEnabled(cfg)
              /\ \E upstream \in FetchOutcomes :
                   LET c == ClientCreate(upstream)
                       m == ClientModels(c.cached)
                       models == Data(m)
                       filtered == applyFilter(providers, name, models)
                       call == [name |-> name, fetchFailed |-> IsError(upstream),
                                create |-> c.result,
                                modelsFailed |-> m.err # Null \/ IsError(models)]
                       s == [startup EXCEPT !.created = Append(@, call)]
                   IN  IF c.result.err # Null
                       THEN \* return Result(new Error("Failed to initialize provider ..."))
                            LET result == Result(InitializeFailed(name, c.result.err))
                            IN  /\ boot' = BootAfter(result)
                                /\ startup' = [s EXCEPT !.settled = Returned(result)]
                                /\ UNCHANGED <<bootIdx, clients, cachedModels,
                                               modelAliasesMapping>>
                       ELSE IF Truthy(models) /\ m.err = Null /\ ~CanIterate(filtered)
                       THEN \* registerModels throws: the top-level await rejects
                            /\ boot' = BootAfterRaise(TypeErrorIterable)
                            /\ startup' = [s EXCEPT !.settled = Thrown(TypeErrorIterable)]
                            /\ cachedModels' = [cachedModels EXCEPT ![name] = c.cached]
                            /\ UNCHANGED <<bootIdx, clients, modelAliasesMapping>>
                       ELSE /\ modelAliasesMapping' =
                                  IF Truthy(models) /\ m.err = Null
                                  THEN registerModels(modelAliasesMapping, name, filtered)
                                  ELSE modelAliasesMapping
                            /\ cachedModels' = [cachedModels EXCEPT ![name] = c.cached]
                            /\ clients' = clients \cup {name}
                            /\ bootIdx' = bootIdx + 1
                            /\ boot' = BootNext(bootIdx + 1)
                            /\ startup' = StartupNext(s, bootIdx + 1)
    /\ UNCHANGED <<providers, maxRetries, refreshing, refreshCall, notFound>>
    /\ UNCHANGED reqVars
    /\ UNCHANGED strVars

(***************************************************************************)
(* ProviderManager.refreshModels and destroyProvider                       *)
(***************************************************************************)
\* The aliases the table holds for a provider.
AliasesOf(mapping, providerName) ==
    {a \in DOMAIN mapping : mapping[a] = providerName}

\* The refreshModels calls of one provider.  pre: while one call is suspended
\* and no other call of the provider has been invoked since it began, the
\* aliases the provider had at its invocation.  last: of the call that
\* settled last, what its fetch came to and what it settled to.
NoRefreshCalls == [pre |-> Null, last |-> Null]

AliasSet(aliases) == [kind |-> "aliases", set |-> aliases]

\* What refreshModels settles to after its await: the error result of the
\* failure branch, the TypeError of registerModels, or the filtered list.
RefreshSettles(clientResult, filtered) ==
    LET models == Data(clientResult)
        err == clientResult.err
    IN  IF err # Null \/ ~Truthy(models)
        THEN [kind |-> "returned", error |-> Null,
              result |-> Result(IF err # Null THEN err
                                ELSE Err("Failed to refresh models"))]
        ELSE IF ~CanIterate(filtered)
        THEN [kind |-> "thrown", error |-> TypeErrorIterable, result |-> Null]
        ELSE [kind |-> "returned", error |-> Null, result |-> Result(filtered)]

\* refreshModels up to its await: the client lookup (an unknown name returns
\* an error result and changes nothing), then removeModels, then the fetch is
\* issued.
RefreshStart(name) ==
    /\ boot = "serving"
    /\ name \in clients
    /\ refreshing[name] < MaxPending
    /\ modelAliasesMapping' = removeModels(modelAliasesMapping, name)
    /\ refreshing' = [refreshing EXCEPT ![name] = @ + 1]
    /\ refreshCall' = [refreshCall EXCEPT ![name].pre =
                          IF refreshing[name] = 0
                          THEN AliasSet(AliasesOf(modelAliasesMapping, name))
                          ELSE Null]
    /\ UNCHANGED <<providers, maxRetries, boot, bootIdx, startup, notFound, clients,
                   cachedModels>>
    /\ UNCHANGED reqVars
    /\ UNCHANGED strVars

\* refreshModels after its await, for any one of the suspended calls: the
\* client caches, the directory filters and registers.  The client object is
\* the one looked up before the await, also when the provider was destroyed
\* meanwhile.
RefreshFinish(name) ==
    /\ refreshing[name] > 0
    /\ \E upstream \in FetchOutcomes :
         LET c == ClientRefreshModels(cachedModels[name], upstream)
             models == Data(c.result)
             filtered == applyFilter(providers, name, models)
         IN  /\ cachedModels' = [cachedModels EXCEPT ![name] = c.cached]
             /\ modelAliasesMapping' =
                   IF c.result.err # Null \/ ~Truthy(models) THEN modelAliasesMapping
                   ELSE IF ~CanIterate(filtered) THEN modelAliasesMapping
                   ELSE registerModels(modelAliasesMapping, name, filtered)
             /\ refreshCall' = [refreshCall EXCEPT ![name] =
                   [pre |-> Null,
                    last |-> [fetch |-> upstream,
                              settled |-> RefreshSettles(c.result, filtered)]]]
    /\ refreshing' = [refreshing EXCEPT ![name] = @ - 1]
    /\ UNCHANGED <<providers, maxRetries, boot, bootIdx, startup, notFound, clients>>
    /\ UNCHANGED reqVars
    /\ UNCHANGED strVars

\* new Error(`Provider "${name}" not found`)
ProviderNotFound(name) ==
    [kind |-> "error", msg |-> "Provider not found", provider |-> name,
     cause |-> "none"]

\* The names the directory can be asked about: the configured ones and one
\* that no configuration has.
KnownNames == Names(providers) \cup {<<"z">>}

\* refreshModels for a name without a client: the early return.
RefreshUnknown(name) ==
    /\ boot = "serving"
    /\ name \notin clients
    /\ notFound' = [op |-> "refreshModels", name |-> name,
                    settled |-> Returned(Result(ProviderNotFound(name)))]
    /\ UNCHANGED <<providers, maxRetries, boot, bootIdx, startup, clients,
                   cachedModels, modelAliasesMapping, refreshing, refreshCall>>
    /\ UNCHANGED reqVars
    /\ UNCHANGED strVars

\* destroyProvider for a name without a client: the early return.
DestroyUnknown(name) ==
    /\ boot = "serving"
    /\ name \notin clients
    /\ notFound' = [op |-> "destroyProvider", name |-> name,
                    settled |-> Returned(Result(ProviderNotFound(name)))]
    /\ UNCHANGED <<providers, maxRetries, boot, bootIdx, startup, clients,
                   cachedModels, modelAliasesMapping, refreshing, refreshCall>>
    /\ UNCHANGED reqVars
    /\ UNCHANGED strVars

\* destroyProvider: an unknown name returns an error result and changes
\* nothing; otherwise the aliases and the client go in one step.
DestroyProvider(name) ==
    /\ boot = "serving"
    /\ name \in clients
    /\ modelAliasesMapping' = removeModels(modelAliasesMapping, name)
    /\ clients' = clients \ {name}
    /\ UNCHANGED <<providers, maxRetries, boot, bootIdx, startup, notFound,
                   cachedModels, refreshing, refreshCall>>
    /\ UNCHANGED reqVars
    /\ UNCHANGED strVars

(***************************************************************************)
(* Requests, responses and what the upstream can answer                    *)
(***************************************************************************)
RequestModels == {<<"a", "/", "g">>, <<"x", "/", "g">>}
RequestMessages == {<<"hi">>}
Requests == [model : RequestModels, stream : BOOLEAN, messages : RequestMessages]

Choice(index) ==
    [index |-> index, role |-> "assistant", content |-> "hello", finish_reason |-> "stop"]

Response(id, tokens, choices) ==
    [kind |-> "response", id |-> id, created |-> 1700, model |-> <<"g", "1">>,
     choices |-> choices, completion_tokens |-> tokens]

EmptyResponse == Response("cmpl-0", 0, <<Choice(0)>>)
FullResponse == Response("cmpl-1", 7, <<Choice(0)>>)
NoChoiceResponse == Response("cmpl-2", 7, <<>>)
UpstreamError == Err("OpenAI API error")

\* client.completion: the validated response, or a new Error for an error
\* body, an invalid body or a transport failure.
CompletionOutcomes == {EmptyResponse, FullResponse, NoChoiceResponse, UpstreamError}
ClientCompletion(upstream) == Result(upstream)

\* Reading response.usage.<field> of a value that has no usage.
TypeErrorUsage == Err("TypeError: undefined is not an object")

(***************************************************************************)
(* ProviderRouter.completion                                               *)
(***************************************************************************)
AliasNotFound == Err("ModelAlias not found or provider not available")
ClientNotFound == Err("Provider not found")

\* Mutant of RouterLookup: the alias is forwarded as the model, and the
\* messages are dropped.
RouterLookup_NoTrim(req, mapping, cl) ==
    IF req.model \notin DOMAIN mapping
    THEN [kind |-> "settled", outcome |-> AliasNotFound,
          result |-> Result(AliasNotFound)]
    ELSE LET providerName == mapping[req.model]
         IN  IF providerName \notin cl
             THEN [kind |-> "settled", outcome |-> ClientNotFound,
                   result |-> Result(ClientNotFound)]
             ELSE [kind |-> "forward",
                   provider |-> providerName,
                   req |-> [req EXCEPT !.stream = FALSE, !.messages = <<>>]]

\* Mutant of RouterLookup: the caller's stream flag is forwarded as it came.
RouterLookup_KeepsStream(req, mapping, cl) ==
    IF req.model \notin DOMAIN mapping
    THEN [kind |-> "settled", outcome |-> AliasNotFound,
          result |-> Result(AliasNotFound)]
    ELSE LET providerName == mapping[req.model]
             modelPrefix == providerName \o <<"/">>
             actualModel == IF StartsWith(req.model, modelPrefix)
                            THEN Slice(req.model, Len(modelPrefix))
                            ELSE req.model
         IN  IF providerName \notin cl
             THEN [kind |-> "settled", outcome |-> ClientNotFound,
                   result |-> Result(ClientNotFound)]
             ELSE [kind |-> "forward",
                   provider |-> providerName,
                   req |-> [req EXCEPT !.model = actualModel]]

\* Up to the await on client.completion: the alias lookup, the client lookup,
\* the prefix trim and the forced stream: false.
RouterLookup(req, mapping, cl) ==
    IF req.model \notin DOMAIN mapping
    THEN [kind |-> "settled", outcome |-> AliasNotFound,
          result |-> Result(AliasNotFound)]
    ELSE LET providerName == mapping[req.model]
             modelPrefix == providerName \o <<"/">>
             actualModel == IF StartsWith(req.model, modelPrefix)
                            THEN Slice(req.model, Len(modelPrefix))
                            ELSE req.model
         IN  IF providerName \notin cl
             THEN [kind |-> "settled", outcome |-> ClientNotFound,
                   result |-> Result(ClientNotFound)]
             ELSE [kind |-> "forward",
                   provider |-> providerName,
                   req |-> [req EXCEPT !.model = actualModel, !.stream = FALSE]]

\* Mutant of RouterReturn: the response goes back under the alias's name and
\* an id of the router's own.
RouterReturn_Relabels(clientResult) ==
    LET response == Data(clientResult)
        err == clientResult.err
    IN  IF err # Null \/ ~Truthy(response)
        THEN Result(IF err # Null THEN err ELSE Err("Completion failed"))
        ELSE IF IsResponse(response)
        THEN Result([response EXCEPT !.id = "router-1", !.model = <<"a", "/", "g">>])
        ELSE Result(response)

\* After the await: an error or a missing response becomes an error result,
\* anything else is returned as the response.
RouterReturn(clientResult) ==
    LET response == Data(clientResult)
        err == clientResult.err
    IN  IF err # Null \/ ~Truthy(response)
        THEN Result(IF err # Null THEN err ELSE Err("Completion failed"))
        ELSE Result(response)

\* ProviderRouter.models: one entry per key of the alias table.
RouterModels(mapping) == Result({[id |-> alias] : alias \in DOMAIN mapping})

(***************************************************************************)
(* autoRetryCompletion                                                     *)
(***************************************************************************)
MaxRetriesExceeded == Err("Failed after max retries")

NewOrch ==
    [i |-> 1, calls |-> 0, log |-> <<>>, status |-> "idle", value |-> Null,
     fwd |-> Null]

RECURSIVE OrchLoop(_, _, _, _, _)
RECURSIVE OrchAfterAttempt(_, _, _, _, _, _)

\* The for loop from its head, with counter o.i, up to the next suspension on
\* the upstream or to the end of the function.
OrchLoop(o, req, mapping, cl, max) ==
    IF o.i > max
    THEN [o EXCEPT !.status = "returned", !.value = Result(MaxRetriesExceeded)]
    ELSE LET r == RouterLookup(req, mapping, cl)
             o1 == [o EXCEPT !.calls = @ + 1]
         IN  IF r.kind = "forward"
             THEN [o1 EXCEPT !.status = "awaiting", !.fwd = r.req]
             ELSE OrchAfterAttempt([o1 EXCEPT !.log = Append(@, r.outcome)],
                                   r.result, req, mapping, cl, max)

\* Mutant of OrchAfterAttempt: the completion_tokens === 0 check is missing.
OrchAfterAttempt_NoEmptyCheck(o, result, req, mapping, cl, max) ==
    LET response == Data(result)
        err == result.err
    IN  IF err # Null \/ ~Truthy(response)
        THEN OrchLoop([o EXCEPT !.i = @ + 1], req, mapping, cl, max)
        ELSE IF ~IsResponse(response)
        THEN [o EXCEPT !.status = "thrown", !.value = TypeErrorUsage]
        ELSE [o EXCEPT !.status = "returned", !.value = Result(response)]

\* Mutant of OrchAfterAttempt: a cancelled session gives up at the next attempt.
OrchAfterAttempt_StopsOnCancel(o, result, req, mapping, cl, max) ==
    LET response == Data(result)
        err == result.err
    IN  IF isCancelled
        THEN [o EXCEPT !.status = "returned", !.value = Result(MaxRetriesExceeded)]
        ELSE IF err # Null \/ ~Truthy(response)
        THEN OrchLoop([o EXCEPT !.i = @ + 1], req, mapping, cl, max)
        ELSE IF ~IsResponse(response)
        THEN [o EXCEPT !.status = "thrown", !.value = TypeErrorUsage]
        ELSE IF response.completion_tokens = 0
        THEN OrchLoop([o EXCEPT !.i = @ + 1], req, mapping, cl, max)
        ELSE [o EXCEPT !.status = "returned", !.value = Result(response)]

\* The loop body after `await ProviderRouter.completion(request)`.
OrchAfterAttempt(o, result, req, mapping, cl, max) ==
    LET response == Data(result)
        err == result.err
    IN  IF err # Null \/ ~Truthy(response)
        THEN OrchLoop([o EXCEPT !.i = @ + 1], req, mapping, cl, max)
        ELSE IF ~IsResponse(response)
        THEN [o EXCEPT !.status = "thrown", !.value = TypeErrorUsage]
        ELSE IF response.completion_tokens = 0
        THEN OrchLoop([o EXCEPT !.i = @ + 1], req, mapping, cl, max)
        ELSE [o EXCEPT !.status = "returned", !.value = Result(response)]

OrchFinished(o) == o.status \in {"returned", "thrown"}

(***************************************************************************)
(* The fake stream: frames, safeEnqueue, sendEmptyData, the emission       *)
(***************************************************************************)
\* `chatcmpl-${Date.now()}` and Math.floor(Date.now() / 1000), taken once.
TempId == "chatcmpl-temp"
TempCreated == 1600

\* data: {id, object: "chat.completion.chunk", created, model, choices: [...]}
Chunk(id, created, model, delta, content, finish) ==
    [kind |-> "chunk", id |-> id, created |-> created, model |-> model,
     delta |-> delta, content |-> content, finish |-> finish,
     type |-> "", message |-> ""]

\* delta: { content: "" }, finish_reason: null, tempId, tempCreated, request.model
KeepAliveFrame(req) ==
    Chunk(TempId, TempCreated, req.model, "content", <<"">>, <<"null">>)

\* delta: { role } of the first choice, with the response's id, created, model
RoleChunk(response) ==
    Chunk(response.id, response.created, response.model, "role",
          <<response.choices[1].role>>, <<"null">>)

\* one chunk with the whole content of every choice
ContentChunk(response) ==
    Chunk(response.id, response.created, response.model, "content",
          [k \in 1..Len(response.choices) |-> response.choices[k].content],
          [k \in 1..Len(response.choices) |-> "null"])

\* one chunk with every choice's finish_reason
FinishChunk(response) ==
    Chunk(response.id, response.created, response.model, "none",
          [k \in 1..Len(response.choices) |-> ""],
          [k \in 1..Len(response.choices) |-> response.choices[k].finish_reason])

\* data: [DONE]
DoneFrame ==
    [kind |-> "done", id |-> "", created |-> 0, model |-> <<>>, delta |-> "none",
     content |-> <<>>, finish |-> <<>>, type |-> "", message |-> ""]

\* data: {error: {message, type: "completion_error"}}
ErrorFrame(message) ==
    [kind |-> "error", id |-> "", created |-> 0, model |-> <<>>, delta |-> "none",
     content |-> <<>>, finish |-> <<>>, type |-> "completion_error",
     message |-> message]

IsKeepAlive(f) == f.kind = "chunk" /\ f.id = TempId

\* The session as one value, for the helpers that run to completion.
Session ==
    [isCancelled |-> isCancelled, isCompleted |-> isCompleted,
     fakeStreamTimer |-> fakeStreamTimer, chan |-> chan, frames |-> frames,
     enqueueCalls |-> enqueueCalls, closeCalls |-> closeCalls]

\* Mutant of safeEnqueue: the flags are not looked at before the write.
safeEnqueue_Unchecked(st, data) ==
    IF st.chan = "open"
    THEN [st |-> [st EXCEPT !.frames = Append(@, data), !.enqueueCalls = @ + 1],
          ok |-> TRUE]
    ELSE [st |-> [st EXCEPT !.isCancelled = TRUE, !.enqueueCalls = @ + 1],
          ok |-> FALSE]

\* safeEnqueue: refuses once completed or cancelled; controller.enqueue on a
\* controller that is not open throws the TypeError whose message says
\* "closed", which sets isCancelled.
safeEnqueue(st, data) ==
    IF st.isCompleted \/ st.isCancelled
    THEN [st |-> st, ok |-> FALSE]
    ELSE IF st.chan = "open"
    THEN [st |-> [st EXCEPT !.frames = Append(@, data), !.enqueueCalls = @ + 1],
          ok |-> TRUE]
    ELSE [st |-> [st EXCEPT !.isCancelled = TRUE, !.enqueueCalls = @ + 1],
          ok |-> FALSE]

\* try { controller.close() } catch { }: a second close throws and is swallowed.
controllerClose(st) ==
    [st EXCEPT !.closeCalls = @ + 1,
               !.chan = IF @ = "open" THEN "closed" ELSE @]

\* Mutant of clearTimer: the interval is left running.
clearTimer_Leaves(st) == st

\* if (fakeStreamTimer) { clearInterval(fakeStreamTimer); fakeStreamTimer = null }
clearTimer(st) == [st EXCEPT !.fakeStreamTimer = FALSE]

\* Mutant of sendEmptyData: the guard is inverted, a live session gets no frame.
sendEmptyData_GuardInverted(st, req) ==
    IF ~(st.isCompleted \/ st.isCancelled)
    THEN clearTimer(st)
    ELSE safeEnqueue(st, KeepAliveFrame(req)).st

\* sendEmptyData, the interval's callback.
sendEmptyData(st, req) ==
    IF st.isCompleted \/ st.isCancelled
    THEN clearTimer(st)
    ELSE safeEnqueue(st, KeepAliveFrame(req)).st

\* Mutant of emitError: close is called a second time after the first.
emitError_ClosesTwice(st, message) ==
    IF st.isCancelled THEN st
    ELSE LET e == safeEnqueue(st, ErrorFrame(message))
         IN  IF e.ok THEN controllerClose(controllerClose(e.st)) ELSE e.st

\* Mutant of emitError: the error frame is written and the channel left open.
emitError_NoClose(st, message) ==
    IF st.isCancelled THEN st
    ELSE safeEnqueue(st, ErrorFrame(message)).st

\* The error frame and the close that follows it (both error paths).
emitError(st, message) ==
    IF st.isCancelled THEN st
    ELSE LET e == safeEnqueue(st, ErrorFrame(message))
         IN  IF e.ok THEN controllerClose(e.st) ELSE e.st

\* Mutant of catchBlock: the interval is not cleared on the error path.
catchBlock_TimerLeft(st, error) == emitError(st, error.msg)

\* The catch block of start().
catchBlock(st, error) == emitError(clearTimer(st), error.msg)

RECURSIVE enqueueAll(_, _)
\* The chunks one after the other, returning at the first refused write.
enqueueAll(st, chunks) ==
    IF chunks = <<>> THEN [st |-> st, ok |-> TRUE]
    ELSE LET e == safeEnqueue(st, Head(chunks))
         IN  IF e.ok THEN enqueueAll(e.st, Tail(chunks)) ELSE e

\* Mutant of SuccessChunks: the [DONE] marker is written twice.
SuccessChunks_DoneTwice(response) ==
    (IF Len(response.choices) > 0 /\ response.choices[1].role # ""
     THEN <<RoleChunk(response)>> ELSE <<>>)
    \o <<ContentChunk(response), FinishChunk(response), DoneFrame, DoneFrame>>

\* Mutant of SuccessChunks: the finish chunk is written before the content.
SuccessChunks_FinishFirst(response) ==
    (IF Len(response.choices) > 0 /\ response.choices[1].role # ""
     THEN <<RoleChunk(response)>> ELSE <<>>)
    \o <<FinishChunk(response), ContentChunk(response), DoneFrame>>

\* The chunks of a successful response, in the order they are written.
SuccessChunks(response) ==
    (IF Len(response.choices) > 0 /\ response.choices[1].role # ""
     THEN <<RoleChunk(response)>> ELSE <<>>)
    \o <<ContentChunk(response), FinishChunk(response), DoneFrame>>

\* Mutant of emitAfterOrch: the timer is cleared and nothing is written or
\* closed.
emitAfterOrch_Silent(st, o) == clearTimer(st)

\* start() after `await autoRetryCompletion(request)`, to its end.
emitAfterOrch(st, o) ==
    IF o.status = "thrown" THEN catchBlock(st, o.value)
    ELSE LET st1 == clearTimer(st)
             response == Data(o.value)
             err == o.value.err
         IN  IF err # Null \/ ~Truthy(response)
             THEN emitError(st1, IF err # Null THEN err.msg ELSE "Unknown error")
             ELSE IF ~IsResponse(response)
             THEN \* the success log reads response.usage.prompt_tokens
                  catchBlock(st1, TypeErrorUsage)
             ELSE IF st1.isCancelled THEN st1
             ELSE LET e == enqueueAll(st1, SuccessChunks(response))
                  IN  IF e.ok
                      THEN controllerClose([e.st EXCEPT !.isCompleted = TRUE])
                      ELSE e.st

\* handleCompletion, non-streaming, after `await autoRetryCompletion(request)`.
handlerAfterOrch(o) ==
    IF o.status = "thrown" THEN [kind |-> "throw", value |-> o.value]
    ELSE LET response == Data(o.value)
             err == o.value.err
         IN  IF err # Null \/ ~Truthy(response)
             THEN [kind |-> "throw", value |-> Err("Failed to create completion")]
             ELSE IF ~IsResponse(response)
             THEN [kind |-> "throw", value |-> TypeErrorUsage]
             ELSE [kind |-> "return", value |-> response]

(***************************************************************************)
(* The request: handleCompletion, the upstream's answer, the timer, cancel *)
(***************************************************************************)
SetSession(st) ==
    /\ isCancelled' = st.isCancelled
    /\ isCompleted' = st.isCompleted
    /\ fakeStreamTimer' = st.fakeStreamTimer
    /\ chan' = st.chan
    /\ frames' = st.frames
    /\ enqueueCalls' = st.enqueueCalls
    /\ closeCalls' = st.closeCalls

\* What follows the orchestrator's loop in the same run of the event loop:
\* nothing while it waits for the upstream, the continuation of its caller
\* once it has finished.
Continue(o, req, st) ==
    /\ orch' = o
    /\ forwarded' = IF o.status = "awaiting" THEN Append(forwarded, o.fwd) ELSE forwarded
    /\ pc' = IF OrchFinished(o) THEN "done" ELSE "upstream"
    /\ IF req.stream
       THEN /\ SetSession(IF OrchFinished(o) THEN emitAfterOrch(st, o) ELSE st)
            /\ handler' = handler
       ELSE /\ SetSession(st)
            /\ handler' = IF OrchFinished(o) THEN handlerAfterOrch(o) ELSE handler

\* POST /v1/chat/completions.  With stream: true the ReadableStream's start()
\* sets the interval and calls the orchestrator; without, the handler calls it.
HandleCompletion(req) ==
    /\ boot = "serving"
    /\ pc = "idle"
    /\ request' = req
    /\ LET o == OrchLoop(NewOrch, req, modelAliasesMapping, clients, maxRetries)
           st == IF req.stream
                 THEN [Session EXCEPT !.chan = "open", !.fakeStreamTimer = TRUE]
                 ELSE Session
       IN  Continue(o, req, st)
    /\ UNCHANGED ticks
    /\ UNCHANGED dirVars
    /\ UNCHANGED maxRetries

\* client.completion settles: the router returns, the orchestrator's loop
\* goes on from the attempt, and its caller when the loop is over.
UpstreamReturn ==
    /\ pc = "upstream"
    /\ \E upstream \in CompletionOutcomes :
         LET result == RouterReturn(ClientCompletion(upstream))
             o == OrchAfterAttempt([orch EXCEPT !.log = Append(@, upstream),
                                                !.fwd = Null],
                                   result, request, modelAliasesMapping, clients,
                                   maxRetries)
         IN  Continue(o, request, Session)
    /\ UNCHANGED <<request, ticks>>
    /\ UNCHANGED dirVars
    /\ UNCHANGED maxRetries

\* The interval fires: sendEmptyData.
Tick ==
    /\ fakeStreamTimer
    /\ ticks < MaxTicks
    /\ ticks' = ticks + 1
    /\ SetSession(sendEmptyData(Session, request))
    /\ UNCHANGED reqVars
    /\ UNCHANGED dirVars
    /\ UNCHANGED maxRetries

\* Mutant of cancel: the interval is cleared and the flag forgotten.
cancel_FlagNotSet(st) == clearTimer(st)

\* The client disconnects: the runtime closes the stream and calls cancel().
cancel(st) == clearTimer([st EXCEPT !.isCancelled = TRUE])

Cancel ==
    /\ chan \in {"open", "closed"}
    /\ ~isCancelled
    /\ SetSession([cancel(Session) EXCEPT !.chan = IF @ = "open" THEN "cancelled" ELSE @])
    /\ UNCHANGED ticks
    /\ UNCHANGED reqVars
    /\ UNCHANGED dirVars
    /\ UNCHANGED maxRetries

(***************************************************************************)
(* The specification                                                       *)
(***************************************************************************)
InitWith(configs, retries) ==
    /\ providers \in configs
    /\ maxRetries \in retries
    /\ boot = "init"
    /\ bootIdx = 1
    /\ startup = NoStartup
    /\ notFound = Null
    /\ clients = {}
    /\ cachedModels = [n \in Names(providers) |-> Null]
    /\ modelAliasesMapping = EmptyMapping
    /\ refreshing = [n \in Names(providers) |-> 0]
    /\ refreshCall = [n \in Names(providers) |-> NoRefreshCalls]
    /\ pc = "idle"
    /\ request = Null
    /\ orch = NewOrch
    /\ forwarded = <<>>
    /\ handler = Null
    /\ isCancelled = FALSE
    /\ isCompleted = FALSE
    /\ fakeStreamTimer = FALSE
    /\ chan = "none"
    /\ frames = <<>>
    /\ enqueueCalls = 0
    /\ closeCalls = 0
    /\ ticks = 0

Init == InitWith(Configs, 1..MaxRetriesBound)

Next ==
    \/ InitializeProvider
    \/ \E name \in Names(providers) : RefreshStart(name)
    \/ \E name \in Names(providers) : RefreshFinish(name)
    \/ \E name \in Names(providers) : DestroyProvider(name)
    \/ \E req \in Requests : HandleCompletion(req)
    \/ UpstreamReturn
    \/ Tick
    \/ Cancel

Spec == Init /\ [][Next]_vars

\* The same steps with every awaited upstream completion coming back: the
\* continuation of a call that waits for the upstream is run in the end.
SpecLive == Init /\ [][Next]_vars /\ WF_vars(UpstreamReturn)

\* Startup over several providers, and the requests served after it.
InitBoot == InitWith(BootConfigs, {1})

NextBoot ==
    \/ InitializeProvider
    \/ \E req \in Requests : HandleCompletion(req)
    \/ UpstreamReturn
    \/ Tick
    \/ Cancel

SpecBoot == InitBoot /\ [][NextBoot]_vars

\* The directory alone: startup, then refreshModels and destroyProvider for
\* names with and without a client.
InitDir == InitWith(DirConfigs, {1})

NextDir ==
    \/ InitializeProvider
    \/ \E name \in Names(providers) : RefreshStart(name)
    \/ \E name \in Names(providers) : RefreshFinish(name)
    \/ \E name \in Names(providers) : DestroyProvider(name)
    \/ \E name \in KnownNames : RefreshUnknown(name)
    \/ \E name \in KnownNames : DestroyUnknown(name)

SpecDir == InitDir /\ [][NextDir]_vars

\* The directory with provider names and model ids that hold a "/".
InitKeys == InitWith(KeyConfigs, {1})

SpecKeys == InitKeys /\ [][NextDir]_vars

(***************************************************************************)
(* Properties of the orchestrator                                          *)
(***************************************************************************)
\* What one attempt came to, as logged in orch.log.
IsEmptyCompletion(v) == IsResponse(v) /\ v.completion_tokens = 0
IsGoodCompletion(v) == IsResponse(v) /\ v.completion_tokens # 0
IsFailedAttempt(v) == IsError(v) \/ IsEmptyCompletion(v)
AllOf(log, P(_)) == \A k \in 1..Len(log) : P(log[k])

\* The orchestrator ended with the error e: it returned an error result whose
\* err is e.
EndedWithError(o, e) ==
    o.status = "returned" /\ o.value.err = e

\* C1: with every attempt yielding completion_tokens = 0 the orchestrator
\* calls Router.completion exactly maxRetries times, never more, and then
\* ends with the MaxRetriesExceeded error.
C1_ExhaustsThenMaxRetriesExceeded ==
    /\ orch.calls <= maxRetries
    /\ (Len(orch.log) >= 1 /\ AllOf(orch.log, IsEmptyCompletion))
         => IF Len(orch.log) < maxRetries
            THEN orch.status = "awaiting"
            ELSE /\ orch.calls = maxRetries
                 /\ EndedWithError(orch, MaxRetriesExceeded)

\* C2: after k < maxRetries failed attempts (error or empty) another attempt
\* is made, and when k failures are followed by a non-empty, error-free
\* response the orchestrator returns exactly that response after exactly k+1
\* calls.
C2_SuccessAfterFailures ==
    LET n == Len(orch.log)
    IN  /\ (n >= 1 /\ n < maxRetries /\ AllOf(orch.log, IsFailedAttempt))
             => orch.status = "awaiting"
        /\ (n >= 1 /\ AllOf(SubSeq(orch.log, 1, n - 1), IsFailedAttempt)
                  /\ IsGoodCompletion(orch.log[n]))
             => /\ orch.status = "returned"
                /\ orch.value.err = Null
                /\ Data(orch.value) = orch.log[n]
                /\ orch.calls = n

\* C4: an attempt that comes to AliasNotFound or ClientNotFound is the last
\* one, and that error is what the orchestrator returns to its caller.
C4_NotFoundIsNotRetried ==
    \A k \in 1..Len(orch.log) :
        orch.log[k] \in {AliasNotFound, ClientNotFound}
          => /\ k = Len(orch.log)
             /\ orch.calls = k
             /\ EndedWithError(orch, orch.log[k])

\* The error an orchestrator result carries, whichever slot holds it.
ErrorCarried(result) ==
    IF result.err # Null THEN result.err ELSE Data(result)

GaveUp(o) ==
    /\ o.status = "returned"
    /\ ErrorCarried(o.value).kind = "error"
    /\ ErrorCarried(o.value).msg = MaxRetriesExceeded.msg

FailureOf(v) == IF IsError(v) THEN v.msg ELSE "EmptyCompletion"

\* C5: the MaxRetriesExceeded error returned after maxRetries failed attempts
\* carries the error of the last failed attempt.
C5_MaxRetriesWrapsLastError ==
    GaveUp(orch) =>
        ErrorCarried(orch.value).cause = FailureOf(orch.log[Len(orch.log)])

(***************************************************************************)
(* Properties of the fake stream                                           *)
(***************************************************************************)
Last(seq) == seq[Len(seq)]
CountOf(seq, P(_)) == Cardinality({k \in 1..Len(seq) : P(seq[k])})

OrchSucceeded(o) ==
    o.status = "returned" /\ o.value.err = Null /\ IsResponse(Data(o.value))

\* The orchestrator did not come to a response: it gave up, returned an
\* error, or raised.
OrchFailed(o) == OrchFinished(o) /\ ~OrchSucceeded(o)

IsRealChunk(f) == f.kind \in {"chunk", "done"} /\ ~IsKeepAlive(f)
IsErrorFrame(f) == f.kind = "error"

\* C3: a response with completion_tokens = 0 is never returned by the
\* orchestrator or the non-streaming handler, and the role/content/finish
\* chunks and the [DONE] marker are only ever those of a returned response
\* with completion_tokens # 0.
C3_EmptyNeverDelivered ==
    /\ OrchSucceeded(orch) => Data(orch.value).completion_tokens # 0
    /\ handler.kind = "return" => handler.value.completion_tokens # 0
    /\ \A k \in 1..Len(frames) :
          IsRealChunk(frames[k])
            => /\ OrchSucceeded(orch)
               /\ Data(orch.value).completion_tokens # 0
               /\ frames[k].kind = "chunk" => frames[k].id = Data(orch.value).id

\* An empty completion was retried and the later response was streamed.
C3_Witness ==
    /\ pc = "done"
    /\ \E k \in 1..Len(orch.log) : IsEmptyCompletion(orch.log[k])
    /\ Len(frames) > 0
    /\ Last(frames).kind = "done"

\* C6: after a success with the session not cancelled the interval is
\* cleared, the channel was closed once, and the frames are the keep-alives
\* followed by exactly: the role chunk (when there is a first choice), one
\* content chunk with the whole content, one finish chunk with every
\* finish_reason, [DONE]; every chunk with the response's id, created, model.
C6_SuccessSequence ==
    (pc = "done" /\ request.stream /\ ~isCancelled /\ OrchSucceeded(orch))
      => LET r == Data(orch.value)
             ka == CountOf(frames, IsKeepAlive)
             tail == SubSeq(frames, ka + 1, Len(frames))
             off == IF Len(r.choices) > 0 THEN 1 ELSE 0
             Real(f) == f.kind = "chunk" /\ f.id = r.id /\ f.created = r.created
                        /\ f.model = r.model
         IN  /\ ~fakeStreamTimer
             /\ isCompleted
             /\ chan = "closed"
             /\ closeCalls = 1
             /\ \A k \in 1..ka : IsKeepAlive(frames[k])
             /\ Len(tail) = off + 3
             /\ off = 1 => /\ Real(tail[1])
                           /\ tail[1].delta = "role"
                           /\ tail[1].content = <<r.choices[1].role>>
             /\ Real(tail[off + 1])
             /\ tail[off + 1].delta = "content"
             /\ tail[off + 1].content = [k \in 1..Len(r.choices) |-> r.choices[k].content]
             /\ Real(tail[off + 2])
             /\ tail[off + 2].delta = "none"
             /\ tail[off + 2].finish =
                   [k \in 1..Len(r.choices) |-> r.choices[k].finish_reason]
             /\ tail[off + 3].kind = "done"

\* A streamed success with a role chunk, after keep-alives.
C6_Witness ==
    /\ pc = "done"
    /\ request.stream
    /\ ~isCancelled
    /\ OrchSucceeded(orch)
    /\ Len(Data(orch.value).choices) > 0
    /\ ticks >= 1

\* C7: once the client has disconnected and the cancelled flag is set, no
\* frame is written and no write is attempted, whatever the orchestrator
\* comes to.
C7_NoWriteAfterCancel ==
    [][(isCancelled \/ chan = "cancelled")
         => (frames' = frames /\ enqueueCalls' = enqueueCalls)]_vars

\* Cancelled mid-flight after keep-alives; the orchestrator then succeeded.
C7_Witness ==
    /\ isCancelled
    /\ pc = "done"
    /\ OrchSucceeded(orch)
    /\ orch.calls >= 2
    /\ Len(frames) >= 1
    /\ \A k \in 1..Len(frames) : IsKeepAlive(frames[k])

KeepAlivesFirst ==
    \A j \in 1..Len(frames) : \A k \in 1..Len(frames) :
        (j < k /\ IsKeepAlive(frames[k])) => IsKeepAlive(frames[j])

\* C8: keep-alive frames only precede the terminal frames, and after the
\* emitter has closed the channel no frame is written and no write attempted.
C8_NoKeepAliveAfterTerminal ==
    /\ []KeepAlivesFirst
    /\ [][closeCalls > 0 => (frames' = frames /\ enqueueCalls' = enqueueCalls)]_vars

\* Ticks interleaved with a retried call that ended in the terminal sequence.
C8_Witness ==
    /\ closeCalls = 1
    /\ ticks >= 2
    /\ orch.calls >= 2
    /\ Last(frames).kind \in {"done", "error"}

\* C9: every timer callback of a session wrote exactly one keep-alive frame
\* (empty content, finish_reason null, tempId, tempCreated), so the frames
\* start with as many keep-alives as ticks fired, and hold no other.
C9_TicksEmitKeepAlives ==
    chan # "none"
      => /\ Len(frames) >= ticks
         /\ \A k \in 1..ticks :
               /\ frames[k].kind = "chunk"
               /\ frames[k].id = TempId
               /\ frames[k].created = TempCreated
               /\ frames[k].model = request.model
               /\ frames[k].delta = "content"
               /\ frames[k].content = <<"">>
               /\ frames[k].finish = <<"null">>
         /\ CountOf(frames, IsKeepAlive) = ticks

\* Four keep-alives during a call with retries, then the terminal sequence.
C9_Witness ==
    /\ pc = "done"
    /\ ticks >= 4
    /\ orch.calls >= 2
    /\ OrchSucceeded(orch)
    /\ Len(frames) = ticks + 4
    /\ Last(frames).kind = "done"

\* C10: when the stream's work is over and the session is not cancelled, the
\* interval is cleared and the channel closed once after a terminal frame;
\* when the orchestrator failed (or the emission raised), that frame is the
\* one error frame of type completion_error, after keep-alives only.
C10_FailureEndsWithErrorFrame ==
    (pc = "done" /\ request.stream /\ ~isCancelled)
      => /\ ~fakeStreamTimer
         /\ chan = "closed"
         /\ closeCalls = 1
         /\ Len(frames) >= 1
         /\ Last(frames).kind \in {"done", "error"}
         /\ OrchFailed(orch)
              => /\ Last(frames).kind = "error"
                 /\ Last(frames).type = "completion_error"
                 /\ CountOf(frames, IsErrorFrame) = 1
                 /\ \A k \in 1..(Len(frames) - 1) : IsKeepAlive(frames[k])

\* The orchestrator gave up after its retries, with keep-alives on the way.
C10_Witness ==
    /\ pc = "done"
    /\ request.stream
    /\ ~isCancelled
    /\ GaveUp(orch)
    /\ orch.calls = maxRetries
    /\ maxRetries >= 2
    /\ ticks >= 1
    /\ Last(frames).kind = "error"

(***************************************************************************)
(* Cancellation and the upstream work                                      *)
(***************************************************************************)
\* Where the loop stands according to the outcomes of its attempts alone: it
\* ends at the first attempt that is not an empty completion, or when
\* maxRetries attempts were empty, and waits for the upstream otherwise.
StandingOf(log, max) ==
    LET n == Len(log)
    IN  IF n = 0 THEN "awaiting"
        ELSE IF IsError(log[n]) THEN "thrown"
        ELSE IF IsGoodCompletion(log[n]) THEN "returned"
        ELSE IF n = max THEN "returned"
        ELSE "awaiting"

OrchRunsItsCourse ==
    orch.status # "idle" =>
        /\ AllOf(SubSeq(orch.log, 1, Len(orch.log) - 1), IsEmptyCompletion)
        /\ orch.status = StandingOf(orch.log, maxRetries)
        /\ orch.calls = Len(orch.log) + (IF orch.status = "awaiting" THEN 1 ELSE 0)
        /\ Len(orch.log) <= maxRetries

\* C11: cancelling a streaming session leaves the upstream work alone: the
\* step that sets the cancelled flag changes nothing of the orchestrator, of
\* the forwarded requests or of the frames, and the orchestrator of a
\* cancelled session makes the attempts the outcomes alone call for, as that
\* of a session that was not cancelled.
C11_CancelLeavesUpstreamAlone ==
    /\ []OrchRunsItsCourse
    /\ [][(~isCancelled /\ isCancelled')
            => UNCHANGED <<pc, request, orch, forwarded, handler, isCompleted,
                           frames, enqueueCalls, closeCalls>>]_vars

\* A session cancelled while its orchestrator was waiting, whose orchestrator
\* then went on to a second attempt and ended.
C11_Witness ==
    /\ chan = "cancelled"
    /\ isCancelled
    /\ frames = <<>>
    /\ OrchFinished(orch)
    /\ orch.calls >= 2
    /\ Len(forwarded) >= 2

(***************************************************************************)
(* Properties of the directory                                             *)
(***************************************************************************)
\* C12: in every state every value of the alias table names a provider that
\* has a client in the client map, whatever the interleaving of
\* initializeProviders, refreshModels and destroyProvider.
C12_AliasValuesHaveClients ==
    \A a \in DOMAIN modelAliasesMapping : modelAliasesMapping[a] \in clients

\* The aliases a request could name for a provider: "<name>/..." .
NamesProvider(alias, providerName) == StartsWith(alias, providerName \o <<"/">>)

\* C13: once a refreshModels(P) and a destroyProvider(P) invoked after it
\* have both finished, no alias refers to P and the router answers every
\* alias of P with AliasNotFound.
C13_RefreshThenDestroyLeavesNoAlias ==
    \A P \in Names(providers) :
        (boot = "serving" /\ refreshCall[P].last # Null /\ refreshing[P] = 0
           /\ P \notin clients)
        => /\ AliasesOf(modelAliasesMapping, P) = {}
           /\ \A req \in Requests :
                 NamesProvider(req.model, P)
                 => LET r == RouterLookup(req, modelAliasesMapping, clients)
                    IN  r.kind = "settled" /\ r.outcome = AliasNotFound

\* C14: what a reader saw of P's aliases while a refreshModels(P) was running
\* alone is the complete set P had before the call or the complete set P has
\* after it, for every refresh that ends with P still registered.
C14_ReadsSeeCompleteSets ==
    [][\A P \in Names(providers) :
          (/\ refreshing[P] = 1 /\ refreshing'[P] = 0
           /\ refreshCall[P].pre # Null
           /\ P \in clients)
          => AliasesOf(modelAliasesMapping, P)
               \in {refreshCall[P].pre.set, AliasesOf(modelAliasesMapping', P)}]_vars

\* The configured filter of a provider lets the id through: no filter, an id
\* of the whitelist, or an id that is not on the blacklist.
PassesFilter(providerName, id) ==
    LET pcfg == ProviderConfigOf(providers, providerName)
    IN  \/ pcfg.filter = Null
        \/ pcfg.filter.mode = "whitelist" /\ id \in pcfg.filter.models
        \/ pcfg.filter.mode = "blacklist" /\ id \notin pcfg.filter.models

\* The provider's model list as fetched last, filtered.
FilteredModels(providerName) ==
    SelectSeq(cachedModels[providerName].items,
              LAMBDA id : PassesFilter(providerName, id))

\* No directory operation is suspended.
Quiescent == boot = "serving" /\ \A Q \in Names(providers) : refreshing[Q] = 0

\* The last directory operation on the provider was its initialisation or a
\* refreshModels that returned a model list.
LastOperationSucceeded(providerName) ==
    LET last == refreshCall[providerName].last
    IN  \/ last = Null
        \/ /\ last.settled.kind = "returned"
           /\ last.settled.result.err = Null
           /\ IsList(Data(last.settled.result))

\* C15: when initializeProviders has completed or a refreshModels(P) has
\* returned its list, and no directory operation is in flight, the table
\* holds for every registered provider P exactly the n aliases "P/<id>" of
\* the n models of P's filtered list, each with the value P.
C15_AliasesAreTheFilteredModels ==
    Quiescent =>
        \A P \in clients :
            LastOperationSucceeded(P) =>
                LET fm == FilteredModels(P)
                    expected == {AliasOf(P, fm[k]) : k \in 1..Len(fm)}
                IN  /\ {a \in DOMAIN modelAliasesMapping : NamesProvider(a, P)} = expected
                    /\ AliasesOf(modelAliasesMapping, P) = expected
                    /\ Cardinality(expected) = Len(fm)

\* C16: the filter is applied before every registration, at initialisation
\* and at refresh: in every state every alias of the table is "P/<id>" for
\* its provider P and an id that passes P's configured filter.
C16_AliasesPassTheFilter ==
    \A a \in DOMAIN modelAliasesMapping :
        LET P == modelAliasesMapping[a]
        IN  /\ NamesProvider(a, P)
            /\ PassesFilter(P, Slice(a, Len(P) + 1))

\* A provider with a blacklist, initialised from an upstream list that holds a
\* blacklisted id and another one, which alone is registered.
C16_Witness ==
    /\ boot = "serving"
    /\ ProviderConfigOf(providers, <<"a">>).filter # Null
    /\ ProviderConfigOf(providers, <<"a">>).filter.mode = "blacklist"
    /\ refreshCall[<<"a">>] = NoRefreshCalls
    /\ IsList(cachedModels[<<"a">>])
    /\ \E k \in 1..Len(cachedModels[<<"a">>].items) :
          ~PassesFilter(<<"a">>, cachedModels[<<"a">>].items[k])
    /\ DOMAIN modelAliasesMapping = {<<"a", "/", "h">>}

\* A refreshModels call that has settled and whose fetch failed.
FetchFailed(call) == call # Null /\ IsError(call.fetch)

\* C17: refreshModels(P) has removed P's aliases when it issues the fetch; a
\* failed fetch makes it return an error, leaves P's client in place and P
\* without aliases, and no further fetch is issued on its behalf.
C17_FailedRefreshLeavesNoAliases ==
    /\ [](\A P \in Names(providers) :
            (refreshing[P] = 0 /\ FetchFailed(refreshCall[P].last))
            => /\ refreshCall[P].last.settled.kind = "returned"
               /\ refreshCall[P].last.settled.result.err # Null
               /\ AliasesOf(modelAliasesMapping, P) = {})
    /\ [][\A P \in Names(providers) :
            /\ refreshing'[P] > refreshing[P]
                 => AliasesOf(modelAliasesMapping', P) = {}
            /\ refreshing'[P] < refreshing[P]
                 => /\ clients' = clients
                    /\ FetchFailed(refreshCall'[P].last)
                         => refreshing'[P] = refreshing[P] - 1]_vars

(***************************************************************************)
(* Properties of the router                                                *)
(***************************************************************************)
\* Attempts of the current request that did not reach a client.
NotForwarded == orch.calls - Len(forwarded)

\* C18: Router.completion, called while the server runs, for an alias that is
\* not in the alias table returns the AliasNotFound error, and no client's
\* completion is invoked for it.
C18_UnknownAliasIsAliasNotFound ==
    /\ \A req \in Requests :
          (boot = "serving" /\ req.model \notin DOMAIN modelAliasesMapping)
          => LET r == RouterLookup(req, modelAliasesMapping, clients)
             IN  /\ r.kind = "settled"
                 /\ r.result.err = AliasNotFound
    /\ CountOf(orch.log, LAMBDA v : v = AliasNotFound) <= NotForwarded

\* C19: Router.completion for an alias of the table whose provider has no
\* client returns the ClientNotFound error, and no client's completion is
\* invoked for it.
C19_MissingClientIsClientNotFound ==
    /\ \A req \in Requests :
          (/\ boot = "serving"
           /\ req.model \in DOMAIN modelAliasesMapping
           /\ modelAliasesMapping[req.model] \notin clients)
          => LET r == RouterLookup(req, modelAliasesMapping, clients)
             IN  /\ r.kind = "settled"
                 /\ r.result.err = ClientNotFound
    /\ CountOf(orch.log, LAMBDA v : v = ClientNotFound) <= NotForwarded

\* C20: every request handed to a provider client has stream = false, for a
\* caller that asked for a stream and for one that did not, at the first
\* attempt and at every retry.
C20_ForwardedStreamIsFalse ==
    /\ \A k \in 1..Len(forwarded) : forwarded[k].stream = FALSE
    /\ orch.fwd # Null => orch.fwd.stream = FALSE

\* A streaming request whose second attempt has been handed to the client.
C20_Witness ==
    /\ request # Null
    /\ request.stream = TRUE
    /\ chan = "open"
    /\ Len(forwarded) >= 2
    /\ orch.status = "awaiting"

\* What the router hands over, for every request it could be given and for
\* every request it was given.
ForwardedAsGiven ==
    /\ \A req \in Requests :
          (/\ boot = "serving"
           /\ req.model \in DOMAIN modelAliasesMapping
           /\ modelAliasesMapping[req.model] \in clients)
          => LET P == modelAliasesMapping[req.model]
                 r == RouterLookup(req, modelAliasesMapping, clients)
             IN  /\ r.kind = "forward"
                 /\ r.provider = P
                 /\ AliasOf(P, r.req.model) = req.model
                 /\ r.req.messages = req.messages
    /\ \A k \in 1..Len(forwarded) :
          /\ \E P \in Names(providers) :
                AliasOf(P, forwarded[k].model) = request.model
          /\ forwarded[k].messages = request.messages

\* C21: the request handed to provider P's client has as its model the alias
\* without the prefix "P/" and every field but model and stream as the caller
\* gave it, and the caller's request stays as it was.
C21_ForwardedModelIsTrimmed ==
    /\ []ForwardedAsGiven
    /\ [][request # Null => request' = request]_vars

\* A request for alias a/g whose second attempt went to the client as g.
C21_Witness ==
    /\ request # Null
    /\ request.model = <<"a", "/", "g">>
    /\ Len(forwarded) >= 2
    /\ forwarded[2].model = <<"g">>
    /\ forwarded[2].messages = <<"hi">>

\* What the router and the non-streaming handler give back for a response
\* of the upstream.
ReturnedAsReceived ==
    /\ \A upstream \in CompletionOutcomes :
          IsResponse(upstream)
          => LET result == RouterReturn(ClientCompletion(upstream))
             IN  /\ result.err = Null
                 /\ Data(result) = upstream
    /\ (pc = "done" /\ OrchSucceeded(orch))
       => /\ Data(orch.value) = Last(orch.log)
          /\ Data(orch.value).id = Last(orch.log).id
          /\ Data(orch.value).model = Last(orch.log).model
          /\ Data(orch.value).model # request.model
    /\ (pc = "done" /\ handler # Null /\ handler.kind = "return")
       => /\ handler.value = Last(orch.log)
          /\ handler.value.id = Last(orch.log).id
          /\ handler.value.model = Last(orch.log).model
          /\ handler.value.model # request.model

\* C22: on success Router.completion and the non-streaming handler return
\* the client's response as it is: its id is the upstream's id and its model
\* the upstream's model name, not the alias.
C22_ResponseReturnedUnchanged == ReturnedAsReceived

\* The non-streaming handler returned the upstream's cmpl-1 for alias a/g.
C22_Witness ==
    /\ pc = "done"
    /\ request.model = <<"a", "/", "g">>
    /\ ~request.stream
    /\ handler # Null
    /\ handler.kind = "return"
    /\ handler.value.id = "cmpl-1"
    /\ handler.value.model = <<"g", "1">>

\* The ids listModels returns in the current state of the directory.
ListedAliases == {m.id : m \in Data(RouterModels(modelAliasesMapping))}

\* C23: listModels returns exactly the keys of the alias table, and a
\* completion for any alias it returns, in the same state of the directory,
\* ends with neither AliasNotFound nor ClientNotFound.
C23_ListedAliasesAreResolvable ==
    boot = "serving"
    => /\ RouterModels(modelAliasesMapping).err = Null
       /\ ListedAliases = DOMAIN modelAliasesMapping
       /\ \A alias \in ListedAliases : \A stream \in BOOLEAN :
             \A messages \in RequestMessages :
               RouterLookup([model |-> alias, stream |-> stream,
                             messages |-> messages],
                            modelAliasesMapping, clients).kind = "forward"

\* The first half of C23 alone.
ListedAliasesAreTheKeys ==
    boot = "serving" => ListedAliases = DOMAIN modelAliasesMapping

(***************************************************************************)
(* Properties of startup                                                   *)
(***************************************************************************)
\* The position of a provider in the declaration.
IndexOf(providerName) == CHOOSE i \in 1..Len(providers) : providers[i].name = providerName

\* Nothing of the provider exists: no client, no cached list, no alias.
Untouched(providerName) ==
    /\ providerName \notin clients
    /\ cachedModels[providerName] = Null
    /\ AliasesOf(modelAliasesMapping, providerName) = {}
    /\ \A k \in 1..Len(startup.created) : startup.created[k].name # providerName

\* create() was called on the enabled providers in the order of declaration.
CreatedInOrder ==
    LET enabled == SelectSeq(providers, LAMBDA cfg : cfg.enabled)
    IN  /\ Len(startup.created) <= Len(enabled)
        /\ \A k \in 1..Len(startup.created) : startup.created[k].name = enabled[k].name

\* Once a provider's create() has failed on its fetch, no provider declared
\* after it is created, validated or registered.
NothingAfterFailure ==
    \A k \in 1..Len(startup.created) :
       startup.created[k].fetchFailed
       => \A i \in 1..Len(providers) :
             i > IndexOf(startup.created[k].name) => Untouched(providers[i].name)

\* C24: initializeProviders takes the providers in declaration order, and at
\* the first enabled provider whose create() fails it returns an error that
\* names this provider, and no provider declared after it is created,
\* validated or registered.
C24_FailFastInDeclarationOrder ==
    /\ CreatedInOrder
    /\ NothingAfterFailure
    /\ \A k \in 1..Len(startup.created) :
          startup.created[k].fetchFailed
          => /\ startup.settled # Null
             /\ startup.settled.kind = "returned"
             /\ startup.settled.result.err # Null
             /\ startup.settled.result.err.provider = startup.created[k].name

\* The initialization of some provider failed: its create() did not get the
\* models, or initializeProviders settled with anything but its plain result.
InitializationFailed ==
    \/ \E k \in 1..Len(startup.created) : startup.created[k].fetchFailed
    \/ /\ startup.settled # Null
       /\ \/ startup.settled.kind = "thrown"
          \/ startup.settled.result.err # Null

\* Every enabled provider has been initialized.
DirectoryComplete ==
    /\ bootIdx > Len(providers)
    /\ \A i \in 1..Len(providers) :
          providers[i].enabled => providers[i].name \in clients

NeverServesAfterFailure ==
    /\ InitializationFailed => (boot \in {"crashed", "exited"} /\ pc = "idle")
    /\ boot = "serving" => DirectoryComplete
    /\ pc # "idle" => (boot = "serving" /\ DirectoryComplete)

\* A startup that was aborted stays so, and takes no request.
StaysDown ==
    boot \in {"crashed", "exited"} => (boot' = boot /\ pc' = "idle")

\* C25: when the initialization of a provider fails the startup is aborted:
\* the server never starts to serve, so a request is only ever routed with
\* every enabled provider initialized.
C25_FailedStartupNeverServes ==
    /\ []NeverServesAfterFailure
    /\ [][StaysDown]_vars

\* Provider a is initialized, b's create() failed on its fetch, and the
\* startup is over without a server.
C25_Witness ==
    /\ boot = "crashed"
    /\ <<"a">> \in clients
    /\ Len(startup.created) = 2
    /\ startup.created[2].name = <<"b">>
    /\ startup.created[2].fetchFailed
    /\ pc = "idle"

\* A disabled provider has no client, no create() call and no alias, and
\* the startup is never aborted at its entry.
DisabledIsUntouched ==
    /\ \A i \in 1..Len(providers) :
          ~providers[i].enabled => Untouched(providers[i].name)
    /\ boot \in {"crashed", "exited"} => providers[bootIdx].enabled

\* The loop passes a disabled entry and goes on.
DisabledIsPassed ==
    (boot = "init" /\ ~providers[bootIdx].enabled)
    => /\ bootIdx' = bootIdx + 1
       /\ boot' \in {"init", "serving"}
       /\ UNCHANGED <<clients, cachedModels, modelAliasesMapping>>

\* C26: a disabled provider is skipped: it gets no client, its create() is
\* never called, no alias is registered for it, and it does not make the
\* initialization fail.
C26_DisabledProviderIsSkipped ==
    /\ []DisabledIsUntouched
    /\ [][DisabledIsPassed]_vars

\* The server listens with a and c initialized and the disabled b skipped.
C26_Witness ==
    /\ boot = "serving"
    /\ ~providers[2].enabled
    /\ clients = {<<"a">>, <<"c">>}
    /\ Untouched(<<"b">>)
    /\ Len(startup.created) = 2

\* C27: a provider whose create() succeeds and whose model fetch then fails
\* is registered as a live client without aliases, the startup goes on with
\* the providers after it, and no failure is reported.
C27_FailedModelsLeavesLiveClient ==
    \A k \in 1..Len(startup.created) :
       LET call == startup.created[k]
       IN  (call.create.err = Null /\ call.modelsFailed)
           => /\ call.name \in clients
              /\ AliasesOf(modelAliasesMapping, call.name) = {}
              /\ boot \in {"init", "serving"}
              /\ startup.settled # Null => startup.settled = Returned(Result(Null))

\* create() never reports a failure, and models() fails exactly when the
\* fetch in create() had failed.
ModelsFailOnlyAfterFailedCreateFetch ==
    \A k \in 1..Len(startup.created) :
       /\ startup.created[k].create.err = Null
       /\ startup.created[k].modelsFailed = startup.created[k].fetchFailed

(***************************************************************************)
(* Properties of the component boundaries                                  *)
(***************************************************************************)
StartupNeverRaises ==
    startup.settled # Null => startup.settled.kind = "returned"

RefreshNeverRaises ==
    \A P \in Names(providers) :
       refreshCall[P].last # Null => refreshCall[P].last.settled.kind = "returned"

OrchestratorNeverRaises == orch.status # "thrown"

\* C28: initializeProviders, refreshModels, destroyProvider, the router's
\* completion and models, and the orchestrator never raise: each of them
\* settles by returning a result.
C28_OperationsNeverRaise ==
    /\ StartupNeverRaises
    /\ RefreshNeverRaises
    /\ OrchestratorNeverRaises

(***************************************************************************)
(* Properties of refreshModels and destroyProvider without a client        *)
(***************************************************************************)
\* A call that finds no client changes neither the alias table nor the
\* client map, and issues no fetch.
NotFoundChangesNothing ==
    notFound' # notFound
    => UNCHANGED <<modelAliasesMapping, clients, cachedModels, refreshing, refreshCall>>

\* A call that finds no client returns; it does not raise.
NotFoundReturns == notFound # Null => notFound.settled.kind = "returned"

\* What such a call gives back is an error result that carries the
\* ProviderNotFound error for the name.
NotFoundIsErrorResult ==
    notFound # Null
    => /\ notFound.name \notin clients
       /\ notFound.settled.kind = "returned"
       /\ notFound.settled.result.err # Null
       /\ notFound.settled.result.err = ProviderNotFound(notFound.name)

\* C29: refreshModels and destroyProvider for a name without a registered
\* client return a ProviderNotFound error and leave the alias table and the
\* client map as they are; no fetch is issued.
C29_NoClientIsProviderNotFound ==
    /\ []NotFoundIsErrorResult
    /\ [][NotFoundChangesNothing]_vars

(***************************************************************************)
(* Properties of the filter                                                *)
(***************************************************************************)
MaxListLen == 3
ModelIds == {<<"g">>, <<"h">>}
FilterIds == {<<"g">>, <<"h">>, <<"k">>}

\* Every upstream list of up to MaxListLen models, repeated ids included.
ModelLists == UNION {[1..n -> ModelIds] : n \in 0..MaxListLen}

\* The models of a list that are in a set (inSet) or outside it, one by one
\* from the front, in the order of the list.
RECURSIVE Selected(_, _, _)
Selected(models, ids, inSet) ==
    IF models = <<>> THEN <<>>
    ELSE LET rest == Selected(Tail(models), ids, inSet)
         IN  IF (Head(models) \in ids) = inSet
             THEN <<Head(models)>> \o rest
             ELSE rest

\* What a provider's configured filter lets through of an upstream list.
ExpectedOf(providerName, models) ==
    LET pcfg == ProviderConfigOf(providers, providerName)
    IN  IF pcfg.filter = Null THEN models
        ELSE Selected(models, pcfg.filter.models, pcfg.filter.mode = "whitelist")

FilterIsExact ==
    /\ \A models \in ModelLists : \A S \in SUBSET FilterIds :
          /\ whitelist(models, S) = Selected(models, S, TRUE)
          /\ blacklist(models, S) = Selected(models, S, FALSE)
          /\ FilterApply(models, S, "whitelist") = Selected(models, S, TRUE)
          /\ FilterApply(models, S, "blacklist") = Selected(models, S, FALSE)
    /\ \A P \in Names(providers) : \A models \in ModelLists :
          applyFilter(providers, P, List(models)) = List(ExpectedOf(P, models))
    /\ \A P \in Names(providers) :
          LET last == refreshCall[P].last
          IN  (last # Null /\ IsList(last.fetch))
              => /\ last.settled.kind = "returned"
                 /\ last.settled.result.err = Null
                 /\ Data(last.settled.result) = List(ExpectedOf(P, last.fetch.items))

\* C30: for every upstream list and every set S of ids, the whitelist gives
\* exactly the models whose id is in S and the blacklist exactly those whose
\* id is not, both in the order of the list; a provider without a filter
\* gets the list as it is.
C30_FilterIsExactAndKeepsOrder == FilterIsExact

\* A refresh of a provider whitelisting h and g that fetched g, h and
\* returned g, h.
C30_Witness ==
    /\ providers[1].filter # Null
    /\ providers[1].filter.mode = "whitelist"
    /\ providers[1].filter.models = {<<"g">>, <<"h">>}
    /\ refreshCall[<<"a">>].last # Null
    /\ refreshCall[<<"a">>].last.fetch = List(<<<<"g">>, <<"h">>>>)
    /\ refreshCall[<<"a">>].last.settled = Returned(Result(List(<<<<"g">>, <<"h">>>>)))

\* The models of a list, as a set.
Range(seq) == {seq[k] : k \in 1..Len(seq)}

\* The two filters of a list by a set share no model and together hold the
\* models of the list, each as often as the list does.
SplitsInTwo(models, S) ==
    LET w == whitelist(models, S)
        b == blacklist(models, S)
    IN  /\ Range(w) \cap Range(b) = {}
        /\ Range(w) \cup Range(b) = Range(models)
        /\ Len(w) + Len(b) = Len(models)

\* C31: for every model list and every set S, whitelist(models, S) and
\* blacklist(models, S) are disjoint and their union is the model set of
\* the list.
C31_FilterRoundTrip ==
    /\ \A models \in ModelLists : \A S \in SUBSET FilterIds : SplitsInTwo(models, S)
    /\ \A P \in Names(providers) :
          LET pcfg == ProviderConfigOf(providers, P)
          IN  (pcfg.filter # Null /\ IsList(cachedModels[P]))
              => SplitsInTwo(cachedModels[P].items, pcfg.filter.models)

\* Provider a, blacklisting g, holds the fetched list g, h, of which the
\* blacklist keeps h and the whitelist g.
C31_Witness ==
    /\ providers[1].filter # Null
    /\ providers[1].filter.mode = "blacklist"
    /\ providers[1].filter.models = {<<"g">>}
    /\ cachedModels[<<"a">>] = List(<<<<"g">>, <<"h">>>>)
    /\ AliasesOf(modelAliasesMapping, <<"a">>) = {<<"a", "/", "h">>}

(***************************************************************************)
(* Properties of the session's end                                         *)
(***************************************************************************)
HasDone == \E k \in 1..Len(frames) : frames[k].kind = "done"
HasErrorFrame == \E k \in 1..Len(frames) : frames[k].kind = "error"

\* The terminal outcomes of a session: [DONE] or an error frame written and
\* the channel closed, the client's cancel, or a channel that a write would
\* find closed.
ClosedAfterDone == HasDone /\ chan = "closed"
ClosedAfterError == HasErrorFrame /\ chan = "closed"
WriteWouldFindClosed == chan \in {"closed", "cancelled"}
Terminal ==
    ClosedAfterDone \/ ClosedAfterError \/ isCancelled \/ WriteWouldFindClosed

TimerClearedAtEnd == Terminal => ~fakeStreamTimer

\* After a terminal outcome the timer's callback does not run again and the
\* timer is not set again.
NoTickAfterEnd == Terminal => (ticks' = ticks /\ ~fakeStreamTimer')

ClosedAtMostOnce ==
    /\ closeCalls <= 1
    /\ closeCalls = 1 => chan = "closed"
    /\ chan = "closed" => closeCalls = 1
    /\ chan # "open"
       => controllerClose(Session) = [Session EXCEPT !.closeCalls = @ + 1]

\* A closed channel stays closed and is not closed again.
StaysClosed ==
    chan = "closed" => (chan' = "closed" /\ closeCalls' = closeCalls)

\* C33: a session goes to CLOSED at most once: the emitter calls close on
\* the channel at most once on every path, and a close of a channel that is
\* closed already is swallowed.
C33_ClosedAtMostOnce ==
    /\ []ClosedAtMostOnce
    /\ [][StaysClosed]_vars

\* The emitter closed the channel, once, after keep-alives and the error
\* frame of a call that used up three attempts.
C33_Witness ==
    /\ closeCalls = 1
    /\ chan = "closed"
    /\ HasErrorFrame
    /\ ticks >= 1
    /\ orch.calls = 3

\* The frames a write can carry.
SomeFrames ==
    {DoneFrame, ErrorFrame("Failed after max retries")}
    \cup (IF request = Null THEN {} ELSE {KeepAliveFrame(request)})

\* What a write in the current state of the session does: nothing at all
\* once completed or cancelled; on a channel that is not open it sets
\* cancelled, writes nothing and reports so; on an open one it appends.
WriteIsSafe ==
    \A f \in SomeFrames :
       LET w == safeEnqueue(Session, f)
       IN  /\ (isCompleted \/ isCancelled) => (~w.ok /\ w.st = Session)
           /\ (~isCompleted /\ ~isCancelled /\ chan # "open")
              => /\ ~w.ok
                 /\ w.st.isCancelled
                 /\ w.st.frames = frames
                 /\ w.st.chan = chan
           /\ (~isCompleted /\ ~isCancelled /\ chan = "open")
              => (w.ok /\ w.st.frames = Append(frames, f))

\* No step attempts a write, from the timer or from the emission, in a
\* session that is completed or cancelled.
NoWriteOnceFlagged ==
    (isCompleted \/ isCancelled)
    => (frames' = frames /\ enqueueCalls' = enqueueCalls)

\* C34: every write of a frame first checks completed || cancelled, and a
\* write to a channel that is closed already does not raise: it sets the
\* session to cancelled and reports the frame as not written.
C34_WritesAreSafe ==
    /\ []WriteIsSafe
    /\ [][NoWriteOnceFlagged]_vars

\* A cancelled session whose call came back with a response: the emission
\* wrote nothing of it.
C34_Witness ==
    /\ request # Null
    /\ request.stream
    /\ isCancelled
    /\ pc = "done"
    /\ OrchSucceeded(orch)
    /\ \A k \in 1..Len(frames) : IsKeepAlive(frames[k])
    /\ enqueueCalls = Len(frames)

(***************************************************************************)
(* Properties of overlapping refreshes and of the alias keys               *)
(***************************************************************************)
\* The one refreshModels(P) still suspended began while another call of P
\* was suspended, or had another call begin while it was: a call that runs
\* alone has the aliases of its invocation recorded.
LastOfOverlapping(P) ==
    /\ P \in clients
    /\ refreshing[P] = 1
    /\ refreshCall[P].pre = Null

\* The aliases of the models of a list.
AliasesFor(P, models) == {AliasOf(P, models[k]) : k \in 1..Len(models)}

\* When the last of the overlapping calls returns its list, P's aliases are
\* those of this list.
LastWriterWins ==
    \A P \in Names(providers) :
       (/\ LastOfOverlapping(P)
        /\ refreshing'[P] = 0
        /\ refreshCall'[P].last.settled.kind = "returned"
        /\ refreshCall'[P].last.settled.result.err = Null
        /\ IsList(Data(refreshCall'[P].last.settled.result)))
       => AliasesOf(modelAliasesMapping', P)
            = AliasesFor(P, Data(refreshCall'[P].last.settled.result).items)

\* C35: after two refreshModels(P) calls whose fetches overlap have both
\* completed, in either order, P's aliases are exactly those of the filtered
\* list the call that finished last registered, with none left from the other.
C35_LastRefreshWins == [][LastWriterWins]_vars

\* Every key of the table is its value, "/" and a model id.
KeysHavePrefix ==
    \A a \in DOMAIN modelAliasesMapping :
       LET P == modelAliasesMapping[a]
       IN  /\ StartsWith(a, P \o <<"/">>)
           /\ a = AliasOf(P, Slice(a, Len(P) + 1))

\* The router forwards the part of the alias after the prefix: the branch
\* that forwards the whole alias is not taken, neither for an alias of the
\* table nor for a request that was forwarded.
FallbackNotTaken ==
    /\ \A a \in DOMAIN modelAliasesMapping :
          LET r == RouterLookup([model |-> a, stream |-> FALSE, messages |-> <<"hi">>],
                                modelAliasesMapping, clients)
          IN  r.kind = "forward"
              => /\ r.req.model # a
                 /\ r.req.model = Slice(a, Len(modelAliasesMapping[a]) + 1)
    /\ \A k \in 1..Len(forwarded) : forwarded[k].model # request.model

\* C36: in every reachable state every key of the alias table starts with
\* its own value followed by "/", so the router never forwards the whole
\* alias as the model.
C36_KeysStartWithProvider == KeysHavePrefix /\ FallbackNotTaken

\* Two aliases of provider a in the table, and a request for one of them
\* forwarded under its model id.
C36_Witness ==
    /\ DOMAIN modelAliasesMapping = {<<"a", "/", "g">>, <<"a", "/", "h">>}
    /\ Len(forwarded) = 1
    /\ forwarded[1].model = <<"g">>

\* The step is no operation of provider P: nothing of P's client, cache and
\* refresh calls changes.  (Every operation of P changes one of them.)
NoStepOf(P) ==
    /\ (P \in clients') = (P \in clients)
    /\ cachedModels'[P] = cachedModels[P]
    /\ refreshing'[P] = refreshing[P]
    /\ refreshCall'[P] = refreshCall[P]

\* The operations of the other providers leave P's aliases alone: none is
\* removed, none resolves to another provider afterwards.
OthersLeaveAliasesAlone ==
    \A P \in Names(providers) :
       NoStepOf(P)
       => \A a \in AliasesOf(modelAliasesMapping, P) :
             /\ a \in DOMAIN modelAliasesMapping'
             /\ modelAliasesMapping'[a] = P

\* C37: alias keys are unique per provider and model id: registering or
\* refreshing a provider Q never changes the provider an alias of another
\* provider P resolves to, and refresh(Q) or destroy(Q) never removes an
\* alias of P, also for names and ids that hold a "/".
C37_AliasKeysAreUnique == [][OthersLeaveAliasesAlone]_vars

(***************************************************************************)
(* Properties of the attempts against a changing directory                 *)
(***************************************************************************)
\* The alias of the request resolves to a provider that has a client.
Resolves(mapping, cl, req) ==
    /\ req.model \in DOMAIN mapping
    /\ mapping[req.model] \in cl

\* A client is contacted only by an attempt that found the alias and the
\* client in the directory as it is at that attempt, under the model id of
\* the alias.
NoStaleContact ==
    Len(forwarded') > Len(forwarded)
    => /\ Resolves(modelAliasesMapping', clients', request')
       /\ Last(forwarded').model
            = Slice(request'.model, Len(modelAliasesMapping'[request'.model]) + 1)

\* The attempt found no alias or no client.
FoundNothing(outcome) == outcome \in {AliasNotFound, ClientNotFound}

\* An attempt that found nothing counts as a failed attempt: the loop moves
\* on to the next value of its counter.
AbsentAttemptsConsumeBudget ==
    \A k \in 1..Len(orch.log) :
       FoundNothing(orch.log[k]) => (orch.i > k /\ orch.status # "thrown")

\* C38: each attempt of the orchestrator resolves the alias against the
\* directory as it is at that attempt: after destroy(P) or the removal step
\* of refresh(P) a later attempt does not contact P's client, and the
\* attempts made while P's aliases are absent use up retries.
C38_AttemptsReResolve ==
    /\ []AbsentAttemptsConsumeBudget
    /\ [][NoStaleContact]_vars

\* A first attempt was forwarded, the aliases went away, and the second
\* attempt found nothing and contacted no client.
ReResolvedAfterRemoval ==
    /\ Len(orch.log) >= 2
    /\ ~FoundNothing(orch.log[1])
    /\ FoundNothing(orch.log[2])
    /\ Len(forwarded) = 1

(***************************************************************************)
(* Properties of the terminal frames                                       *)
(***************************************************************************)
IsDone(f) == f.kind = "done"

\* C39: the frames of a session never hold both a [DONE] marker and an
\* error frame, hold at most one of each, and a [DONE] marker is the last
\* frame, written before the channel was closed.
C39_DoneAndErrorExclude ==
    /\ ~(HasDone /\ HasErrorFrame)
    /\ CountOf(frames, IsDone) <= 1
    /\ CountOf(frames, IsErrorFrame) <= 1
    /\ HasDone => /\ Last(frames) = DoneFrame
                  /\ chan = "closed"
                  /\ closeCalls = 1
                  /\ isCompleted

\* A session of two attempts that ended with [DONE] as its last frame on a
\* closed channel, after a keep-alive.
C39_Witness ==
    /\ HasDone
    /\ Last(frames) = DoneFrame
    /\ chan = "closed"
    /\ orch.calls = 2
    /\ IsKeepAlive(frames[1])

(***************************************************************************)
(* Termination of a streaming session                                      *)
(***************************************************************************)
\* A streaming session has begun.
Streaming == request # Null /\ request.stream

\* The session is over: the timer is cleared, and the emitter has closed
\* the channel after [DONE] or after an error frame, or the client has
\* cancelled.
SessionOver ==
    /\ ~fakeStreamTimer
    /\ \/ ClosedAfterDone /\ Last(frames) = DoneFrame
       \/ ClosedAfterError /\ IsErrorFrame(Last(frames))
       \/ isCancelled

\* C40: with every upstream attempt returning in the end, every streaming
\* session comes to a terminal outcome: none sends keep-alives forever.
C40_SessionTerminates == Streaming ~> SessionOver

\* A streaming session that went through keep-alives and a retried
\* attempt and ended with its channel closed by the emitter.
C40_Witness ==
    /\ Streaming
    /\ SessionOver
    /\ ~isCancelled
    /\ ticks >= 1
    /\ orch.calls >= 2
    /\ pc = "done"
====
